---- MODULE Spec2Model ----
(***************************************************************************)
(* Model of gatsby-source-ghost's gatsby-node.js: the two build hooks      *)
(* (sourceNodes, onPreExtractQueries), the temporary fake nodes and their  *)
(* SET_SCHEMA listener, and createLiveGhostNodes with its promise graph    *)
(* (five browse promises, the join, one async task per post and per page).*)
(*                                                                         *)
(* Every promise reaction is one action: a step runs from the resumption   *)
(* of a callback or async function up to its next await or its return.     *)
(* An optional JavaScript value is a set: {} is undefined/null, {v} is v.  *)
(***************************************************************************)
EXTENDS Integers, Sequences, FiniteSets, TLC

\* Bounds of the model.
MaxPosts == 2
MaxPages == 1
MaxTags == 1
MaxAuthors == 1
MaxSignals == 2

\* The feature_image URLs a record may carry.
Urls == {"img"}

\* The settings object gets the synthetic id 1.
SettingsId == 1

\* The id shared by the entries of fakeNodes (never the id of a live record).
FakeId == 0

Resources == {"posts", "pages", "tags", "authors", "settings"}

Types == {"GhostPost", "GhostPage", "GhostTag", "GhostAuthor", "GhostSettings"}

\* The node factories of ghost-nodes.js: a descriptor keyed by type and id,
\* carrying the image link only when the record has one.
PostNode(post, link) == [type |-> "GhostPost", id |-> post.id, localFile___NODE |-> link]

PageNode(page, link) == [type |-> "GhostPage", id |-> page.id, localFile___NODE |-> link]

TagNode(id) == [type |-> "GhostTag", id |-> id, localFile___NODE |-> {}]

AuthorNode(id) == [type |-> "GhostAuthor", id |-> id, localFile___NODE |-> {}]

SettingsNode(id) == [type |-> "GhostSettings", id |-> id, localFile___NODE |-> {}]

\* One fake node per content type.
fakeNodes == {[type |-> t, id |-> FakeId, localFile___NODE |-> {}] : t \in Types}

\* The per-record tasks: <<"posts", i>> is posts[i], <<"pages", i>> is pages[i].
Recs == ({"posts"} \X (1..MaxPosts)) \cup ({"pages"} \X (1..MaxPages))

\* The values of a record's feature_image: null, or a URL.
FeatureImages == {{}} \cup {{u} : u \in Urls}

\* The record lists a posts/pages browse call can deliver: ids 1..n, each
\* record with or without a feature_image.
Browsed(max) == UNION {{[i \in 1..n |-> [id |-> i, feature_image |-> f[i]]] : f \in [1..n -> FeatureImages]} : n \in 0..max}

\* A file node before createRemoteFileNode has made it.
NoImage == [exists |-> FALSE, originalPath |-> {}, refId |-> {}]

VARIABLES
    called,        \* the build hooks the host has invoked so far
    listeners,     \* the onSchemaUpdate closures registered for SET_SCHEMA, by registering hook
    owner,         \* fake node type -> whether node.internal.owner is set
    ownerError,    \* createNode was handed a node that already had an owner
    sinceActivate, \* SET_SCHEMA deliveries since the last activation (capped)
    sigDeletes,    \* deleteNode calls per fake node in the latest SET_SCHEMA delivery
    store,         \* the host's node store: the Ghost node descriptors in it
    images,        \* the file nodes of the store, by owning task
    calls,         \* createNode calls for live records, counted by descriptor key
    configured,    \* ContentAPI.configure: "no" (not called), "ok" or "threw"
    warned,        \* the tasks whose side-load logged 'Error creating node'
    ingest,        \* the promise returned by sourceNodes
    fetched,       \* the five browse(...).then(...) promises
    tags,          \* the ids of the tags the tags browse delivered
    authors,       \* the ids of the authors the authors browse delivered
    posts,         \* let posts
    pages,         \* let pages
    pc,            \* position of each post/page task
    fileNode       \* what downloadImageAndCreateFileNode holds in fileNode, per task

vars == <<called, listeners, owner, ownerError, sinceActivate, sigDeletes, store, images, calls, configured, warned, ingest, fetched, tags, authors, posts, pages, pc, fileNode>>

phVars == <<listeners, owner, ownerError, sinceActivate, sigDeletes>>

liveVars == <<images, calls, configured, warned, fetched, tags, authors, posts, pages, pc, fileNode>>

LiveKeys == ({"GhostPost"} \X (1..MaxPosts)) \cup ({"GhostPage"} \X (1..MaxPages)) \cup ({"GhostTag"} \X (1..MaxTags)) \cup ({"GhostAuthor"} \X (1..MaxAuthors)) \cup {<<"GhostSettings", SettingsId>>}

Key(node) == <<node.type, node.id>>

Init ==
    /\ called = {}
    /\ listeners = {}
    /\ owner = [t \in Types |-> FALSE]
    /\ ownerError = FALSE
    /\ sinceActivate = 0
    /\ sigDeletes = 0
    /\ store = {}
    /\ images = [x \in Recs |-> NoImage]
    /\ calls = [k \in LiveKeys |-> 0]
    /\ configured = "no"
    /\ warned = {}
    /\ ingest = "idle"
    /\ fetched = [r \in Resources |-> "none"]
    /\ tags = {}
    /\ authors = {}
    /\ posts = <<>>
    /\ pages = <<>>
    /\ pc = [x \in Recs |-> "none"]
    /\ fileNode = [x \in Recs |-> {}]

----
\* The schema placeholder manager.

\* Variant: the owner marker is not deleted before createNode.
OwnerAtCreate_kept(o) == o

\* The owner marker of a fake node at the moment it is handed to createNode.
OwnerAtCreate(o) == FALSE

\* Variant: a node that already has an owner is skipped instead of cleaned.
createTemporaryFakeNodes_skipOwned(h) ==
    /\ owner' = [t \in Types |-> TRUE]
    /\ store' = store \cup {n \in fakeNodes : ~owner[n.type]}
    /\ listeners' = listeners \cup {h}
    /\ sinceActivate' = 0
    /\ UNCHANGED <<ownerError, sigDeletes>>

\* createTemporaryFakeNodes, called from hook h. The host's createNode
\* refuses a node whose internal.owner is already set (the forEach then
\* throws and nothing after it runs) and otherwise sets the owner.
createTemporaryFakeNodes(h) ==
    IF \E n \in fakeNodes : OwnerAtCreate(owner[n.type])
    THEN /\ ownerError' = TRUE
         /\ UNCHANGED <<listeners, owner, sinceActivate, sigDeletes, store>>
    ELSE /\ owner' = [t \in Types |-> TRUE]
         /\ store' = store \cup fakeNodes
         /\ listeners' = listeners \cup {h}
         /\ sinceActivate' = 0
         /\ UNCHANGED <<ownerError, sigDeletes>>

\* Variant: the handler does not take itself off the emitter.
onSchemaUpdate_noOff ==
    /\ sinceActivate < MaxSignals
    /\ sinceActivate' = sinceActivate + 1
    /\ sigDeletes' = Cardinality(listeners)
    /\ store' = IF listeners = {} THEN store ELSE store \ fakeNodes
    /\ UNCHANGED <<called, listeners, owner, ownerError, ingest>>
    /\ UNCHANGED liveVars

\* Variant: the handler deletes every node of a fake node's type.
onSchemaUpdate_deletesByType ==
    /\ sinceActivate < MaxSignals
    /\ sinceActivate' = sinceActivate + 1
    /\ sigDeletes' = Cardinality(listeners)
    /\ store' = IF listeners = {} THEN store ELSE {n \in store : n.type \notin {f.type : f \in fakeNodes}}
    /\ listeners' = {}
    /\ UNCHANGED <<called, owner, ownerError, ingest>>
    /\ UNCHANGED liveVars

\* The host emits SET_SCHEMA: every registered onSchemaUpdate runs, deletes
\* each fake node and takes itself off the emitter.
onSchemaUpdate ==
    /\ sinceActivate < MaxSignals
    /\ sinceActivate' = sinceActivate + 1
    /\ sigDeletes' = Cardinality(listeners)
    /\ store' = IF listeners = {} THEN store ELSE store \ fakeNodes
    /\ listeners' = {}
    /\ UNCHANGED <<called, owner, ownerError, ingest>>
    /\ UNCHANGED liveVars

\* exports.onPreExtractQueries: the host runs it once, after sourceNodes has
\* settled.
onPreExtractQueries ==
    /\ "sourceNodes" \in called
    /\ "onPreExtractQueries" \notin called
    /\ ingest \in {"resolved", "rejected"}
    /\ called' = called \cup {"onPreExtractQueries"}
    /\ createTemporaryFakeNodes("onPreExtractQueries")
    /\ UNCHANGED ingest
    /\ UNCHANGED liveVars

----
\* The ingestion orchestrator.

\* Variant: the browse requests are issued although configure threw.
sourceNodes_noFailFast(configOk) ==
    /\ called = {}
    /\ called' = {"sourceNodes"}
    /\ createTemporaryFakeNodes("sourceNodes")
    /\ configured' = IF configOk THEN "ok" ELSE "threw"
    /\ ingest' = "fetching"
    /\ fetched' = [r \in Resources |-> "pending"]
    /\ UNCHANGED <<images, calls, warned, tags, authors, posts, pages, pc, fileNode>>

\* exports.sourceNodes: the fake nodes first, then createLiveGhostNodes up to
\* its first await. ContentAPI.configure either throws (configOk = FALSE:
\* the async function returns a rejected promise) or gives the client, and
\* the five browse requests are issued.
sourceNodes(configOk) ==
    /\ called = {}
    /\ called' = {"sourceNodes"}
    /\ createTemporaryFakeNodes("sourceNodes")
    /\ IF configOk
       THEN /\ configured' = "ok"
            /\ ingest' = "fetching"
            /\ fetched' = [r \in Resources |-> "pending"]
       ELSE /\ configured' = "threw"
            /\ ingest' = "rejected"
            /\ UNCHANGED fetched
    /\ UNCHANGED <<images, calls, warned, tags, authors, posts, pages, pc, fileNode>>

\* The host's createNode for a set of live descriptors.
CreateLive(nodes) ==
    /\ store' = store \cup nodes
    /\ calls' = [k \in LiveKeys |-> calls[k] + Cardinality({n \in nodes : Key(n) = k})]

\* api.posts.browse(...) resolves with ghostPosts and the callback stores it.
fetchPosts(ghostPosts) ==
    /\ fetched["posts"] = "pending"
    /\ fetched' = [fetched EXCEPT !["posts"] = "fulfilled"]
    /\ posts' = ghostPosts
    /\ UNCHANGED <<called, store, images, calls, configured, warned, ingest, tags, authors, pages, pc, fileNode>>
    /\ UNCHANGED phVars

\* api.pages.browse(...) resolves with ghostPages and the callback stores it.
fetchPages(ghostPages) ==
    /\ fetched["pages"] = "pending"
    /\ fetched' = [fetched EXCEPT !["pages"] = "fulfilled"]
    /\ pages' = ghostPages
    /\ UNCHANGED <<called, store, images, calls, configured, warned, ingest, tags, authors, posts, pc, fileNode>>
    /\ UNCHANGED phVars

\* Variant: the tags callback keeps the tags and creates no node.
fetchTags_noCreate(n) ==
    /\ fetched["tags"] = "pending"
    /\ fetched' = [fetched EXCEPT !["tags"] = "fulfilled"]
    /\ tags' = 1..n
    /\ UNCHANGED <<called, store, images, calls, configured, warned, ingest, authors, posts, pages, pc, fileNode>>
    /\ UNCHANGED phVars

\* api.tags.browse(...) resolves with tags 1..n: one createNode per tag.
fetchTags(n) ==
    /\ fetched["tags"] = "pending"
    /\ fetched' = [fetched EXCEPT !["tags"] = "fulfilled"]
    /\ tags' = 1..n
    /\ CreateLive({TagNode(i) : i \in 1..n})
    /\ UNCHANGED <<called, images, configured, warned, ingest, authors, posts, pages, pc, fileNode>>
    /\ UNCHANGED phVars

\* api.authors.browse(...) resolves with authors 1..n: one createNode per author.
fetchAuthors(n) ==
    /\ fetched["authors"] = "pending"
    /\ fetched' = [fetched EXCEPT !["authors"] = "fulfilled"]
    /\ authors' = 1..n
    /\ CreateLive({AuthorNode(i) : i \in 1..n})
    /\ UNCHANGED <<called, images, configured, warned, ingest, tags, posts, pages, pc, fileNode>>
    /\ UNCHANGED phVars

\* api.settings.browse() resolves: setting.id = 1, one createNode.
fetchSettings ==
    /\ fetched["settings"] = "pending"
    /\ fetched' = [fetched EXCEPT !["settings"] = "fulfilled"]
    /\ CreateLive({SettingsNode(SettingsId)})
    /\ UNCHANGED <<called, images, configured, warned, ingest, tags, authors, posts, pages, pc, fileNode>>
    /\ UNCHANGED phVars

\* A browse request rejects: its .then promise rejects, its callback never runs.
browseRejects(r) ==
    /\ fetched[r] = "pending"
    /\ fetched' = [fetched EXCEPT ![r] = "rejected"]
    /\ UNCHANGED <<called, store, images, calls, configured, warned, ingest, tags, authors, posts, pages, pc, fileNode>>
    /\ UNCHANGED phVars

\* The tasks posts.map and pages.map start.
Started == {x \in Recs : x[2] \in DOMAIN (IF x[1] = "posts" THEN posts ELSE pages)}

\* The record of task x.
Rec(x) == IF x[1] = "posts" THEN posts[x[2]] ELSE pages[x[2]]

\* The descriptor of task x's record, with the given image link.
NodeOf(x, link) == IF x[1] = "posts" THEN PostNode(Rec(x), link) ELSE PageNode(Rec(x), link)

\* The tasks the inner Promise.all waits for: Promise.all takes one iterable,
\* so the second argument, pages.map(...), starts its tasks and is dropped.
Awaited == {x \in Started : x[1] = "posts"}

\* One of the five browse promises rejected: the outer Promise.all rejects
\* and so does the promise of createLiveGhostNodes.
joinRejects ==
    /\ ingest = "fetching"
    /\ \E r \in Resources : fetched[r] = "rejected"
    /\ ingest' = "rejected"
    /\ UNCHANGED <<called, store>>
    /\ UNCHANGED liveVars
    /\ UNCHANGED phVars

\* Variant: the join waits for fetchPosts and fetchPages only.
joinFulfils_postsAndPages ==
    /\ ingest = "fetching"
    /\ \A r \in {"posts", "pages"} : fetched[r] = "fulfilled"
    /\ ingest' = "processing"
    /\ pc' = [x \in Recs |-> IF x \notin Started THEN pc[x]
                             ELSE IF Rec(x).feature_image # {} THEN "download"
                             ELSE "created"]
    /\ CreateLive({NodeOf(x, {}) : x \in {y \in Started : Rec(y).feature_image = {}}})
    /\ UNCHANGED <<called, images, configured, warned, fetched, tags, authors, posts, pages, fileNode>>
    /\ UNCHANGED phVars

\* Variant: every record is side-loaded, with or without a feature_image.
joinFulfils_alwaysSideLoad ==
    /\ ingest = "fetching"
    /\ \A r \in Resources : fetched[r] = "fulfilled"
    /\ ingest' = "processing"
    /\ pc' = [x \in Recs |-> IF x \notin Started THEN pc[x] ELSE "download"]
    /\ UNCHANGED <<called, store, images, calls, configured, warned, fetched, tags, authors, posts, pages, fileNode>>
    /\ UNCHANGED phVars

\* Variant: the side-load is started but not awaited before createNode.
joinFulfils_noAwait ==
    /\ ingest = "fetching"
    /\ \A r \in Resources : fetched[r] = "fulfilled"
    /\ ingest' = "processing"
    /\ pc' = [x \in Recs |-> IF x \notin Started THEN pc[x]
                             ELSE IF Rec(x).feature_image # {} THEN "download"
                             ELSE "created"]
    /\ CreateLive({NodeOf(x, {}) : x \in Started})
    /\ UNCHANGED <<called, images, configured, warned, fetched, tags, authors, posts, pages, fileNode>>
    /\ UNCHANGED phVars

\* All five browse promises fulfilled: the outer Promise.all fulfils and its
\* callback runs posts.map and pages.map. Each task runs to its first await:
\* a record with a feature_image stops in createRemoteFileNode, a record
\* without one is handed to createNode at once.
joinFulfils ==
    /\ ingest = "fetching"
    /\ \A r \in Resources : fetched[r] = "fulfilled"
    /\ ingest' = "processing"
    /\ pc' = [x \in Recs |-> IF x \notin Started THEN pc[x]
                             ELSE IF Rec(x).feature_image # {} THEN "download"
                             ELSE "created"]
    /\ CreateLive({NodeOf(x, {}) : x \in {y \in Started : Rec(y).feature_image = {}}})
    /\ UNCHANGED <<called, images, configured, warned, fetched, tags, authors, posts, pages, fileNode>>
    /\ UNCHANGED phVars

\* createRemoteFileNode resolves with a new file node; the side-loader calls
\* createNodeField for originalPath, which succeeds (the task awaits it) or
\* throws (the catch logs and the side-loader returns fileNode).
downloadResolves(x, fieldOk) ==
    /\ pc[x] = "download"
    /\ fileNode' = [fileNode EXCEPT ![x] = {x}]
    /\ images' = [images EXCEPT ![x] = [exists |-> TRUE,
                                        originalPath |-> IF fieldOk THEN Rec(x).feature_image ELSE {},
                                        refId |-> {}]]
    /\ pc' = [pc EXCEPT ![x] = IF fieldOk THEN "field1" ELSE "loaded"]
    /\ warned' = IF fieldOk THEN warned ELSE warned \cup {x}
    /\ UNCHANGED <<called, store, calls, configured, ingest, fetched, tags, authors, posts, pages>>
    /\ UNCHANGED phVars

\* createRemoteFileNode rejects: the catch logs, fileNode stays undefined and
\* is returned.
downloadRejects(x) ==
    /\ pc[x] = "download"
    /\ pc' = [pc EXCEPT ![x] = "loaded"]
    /\ warned' = warned \cup {x}
    /\ UNCHANGED <<called, store, images, calls, configured, ingest, fetched, tags, authors, posts, pages, fileNode>>
    /\ UNCHANGED phVars

\* Variant: the refId annotation is left out.
annotateRefId_noRef(x, fieldOk) ==
    /\ pc[x] = "field1"
    /\ pc' = [pc EXCEPT ![x] = IF fieldOk THEN "field2" ELSE "loaded"]
    /\ warned' = IF fieldOk THEN warned ELSE warned \cup {x}
    /\ UNCHANGED <<called, store, images, calls, configured, ingest, fetched, tags, authors, posts, pages, fileNode>>
    /\ UNCHANGED phVars

\* After the first annotation: createNodeField for refId succeeds (the task
\* awaits it) or throws (the catch logs, fileNode is returned).
annotateRefId(x, fieldOk) ==
    /\ pc[x] = "field1"
    /\ images' = [images EXCEPT ![x].refId = IF fieldOk THEN {Rec(x).id} ELSE {}]
    /\ pc' = [pc EXCEPT ![x] = IF fieldOk THEN "field2" ELSE "loaded"]
    /\ warned' = IF fieldOk THEN warned ELSE warned \cup {x}
    /\ UNCHANGED <<called, store, calls, configured, ingest, fetched, tags, authors, posts, pages, fileNode>>
    /\ UNCHANGED phVars

\* After the second annotation: return fileNode.
sideLoadReturns(x) ==
    /\ pc[x] = "field2"
    /\ pc' = [pc EXCEPT ![x] = "loaded"]
    /\ UNCHANGED <<called, store, images, calls, configured, warned, ingest, fetched, tags, authors, posts, pages, fileNode>>
    /\ UNCHANGED phVars

\* The image link post.localFile___NODE = post.image.id.
ImageLink(image) == image

\* The task resumes with the side-loader's result: post.image = result,
\* post.localFile___NODE = post.image.id (a TypeError when the result is
\* undefined: the task rejects), then createNode(PostNode(post)).
createRecordNode(x) ==
    /\ pc[x] = "loaded"
    /\ IF fileNode[x] = {}
       THEN /\ pc' = [pc EXCEPT ![x] = "failed"]
            /\ UNCHANGED <<store, calls>>
       ELSE /\ pc' = [pc EXCEPT ![x] = "created"]
            /\ CreateLive({NodeOf(x, ImageLink(fileNode[x]))})
    /\ UNCHANGED <<called, images, configured, warned, ingest, fetched, tags, authors, posts, pages, fileNode>>
    /\ UNCHANGED phVars

\* Every awaited task fulfilled: the inner Promise.all fulfils and the promise
\* of createLiveGhostNodes resolves.
ingestResolves ==
    /\ ingest = "processing"
    /\ \A x \in Awaited : pc[x] = "created"
    /\ ingest' = "resolved"
    /\ UNCHANGED <<called, store>>
    /\ UNCHANGED liveVars
    /\ UNCHANGED phVars

\* Variant: the inner join rejects only when every awaited task rejected.
ingestRejects_allFailed ==
    /\ ingest = "processing"
    /\ Awaited # {}
    /\ \A x \in Awaited : pc[x] = "failed"
    /\ ingest' = "rejected"
    /\ UNCHANGED <<called, store>>
    /\ UNCHANGED liveVars
    /\ UNCHANGED phVars

\* An awaited task rejected: the inner Promise.all rejects and so does the
\* promise of createLiveGhostNodes.
ingestRejects ==
    /\ ingest = "processing"
    /\ \E x \in Awaited : pc[x] = "failed"
    /\ ingest' = "rejected"
    /\ UNCHANGED <<called, store>>
    /\ UNCHANGED liveVars
    /\ UNCHANGED phVars

----
Next ==
    \/ \E configOk \in BOOLEAN : sourceNodes(configOk)
    \/ onPreExtractQueries
    \/ onSchemaUpdate
    \/ \E ghostPosts \in Browsed(MaxPosts) : fetchPosts(ghostPosts)
    \/ \E ghostPages \in Browsed(MaxPages) : fetchPages(ghostPages)
    \/ \E n \in 0..MaxTags : fetchTags(n)
    \/ \E n \in 0..MaxAuthors : fetchAuthors(n)
    \/ fetchSettings
    \/ \E r \in Resources : browseRejects(r)
    \/ joinRejects
    \/ joinFulfils
    \/ \E x \in Recs, fieldOk \in BOOLEAN : downloadResolves(x, fieldOk)
    \/ \E x \in Recs : downloadRejects(x)
    \/ \E x \in Recs, fieldOk \in BOOLEAN : annotateRefId(x, fieldOk)
    \/ \E x \in Recs : sideLoadReturns(x)
    \/ \E x \in Recs : createRecordNode(x)
    \/ ingestResolves
    \/ ingestRejects

Spec == Init /\ [][Next]_vars

TypeOK ==
    /\ called \subseteq {"sourceNodes", "onPreExtractQueries"}
    /\ listeners \subseteq called
    /\ ingest \in {"idle", "fetching", "processing", "resolved", "rejected"}
    /\ \A x \in Recs : pc[x] \in {"none", "download", "field1", "field2", "loaded", "created", "failed"}

\* The reactions the JavaScript job queue runs once they are enabled: the two
\* joins and the settling of the ingestion promise.
FairSpec == Spec /\ WF_vars(joinRejects) /\ WF_vars(joinFulfils) /\ WF_vars(ingestResolves) /\ WF_vars(ingestRejects)

----
\* Vocabulary of the properties.

HasImage(x) == Rec(x).feature_image # {}

\* The task is between its start and its createNode (or its rejection).
Pending(x) == pc[x] \in {"download", "field1", "field2", "loaded"}

\* The side-loader has returned to the task.
Returned(x) == pc[x] \in {"loaded", "created", "failed"}

\* The descriptors in the store for the record of task x.
StoredFor(x) == {n \in store : Key(n) = Key(NodeOf(x, {}))}

SomeBrowseRejected == \E r \in Resources : fetched[r] = "rejected"

PostPageKeys == {k \in LiveKeys : k[1] \in {"GhostPost", "GhostPage"}}

PlaceholdersInStore == store \cap fakeNodes

----
\* C1: ingestion is resolved only when every browse callback has run and
\* createNode has been invoked for every fetched post and page; it is never
\* resolved while a post's or a page's task is still pending.
C1_ResolvedOnlyWhenAllCreated ==
    ingest = "resolved" =>
        /\ \A r \in Resources : fetched[r] = "fulfilled"
        /\ \A x \in Started : pc[x] = "created"

\* C2: a post or page whose side-load failed still gets its node, without an
\* image link, and ingestion is rejected only by a configure or browse failure.
C2_SideLoadFailureIsolated ==
    /\ \A x \in Started : x \in warned =>
           /\ pc[x] # "failed"
           /\ pc[x] = "created" => StoredFor(x) = {NodeOf(x, {})}
    /\ ingest = "rejected" => (configured = "threw" \/ SomeBrowseRejected)

\* C3: once one of the five browse requests has rejected, the ingestion
\* promise rejects, whatever the other four do.
C3_BrowseRejectionRejectsIngestion == SomeBrowseRejected ~> (ingest = "rejected")

C3_Witness ==
    /\ ingest = "rejected"
    /\ fetched["tags"] = "rejected"
    /\ fetched["posts"] = "fulfilled"
    /\ fetched["settings"] = "pending"

\* C4 as stated: once a browse request has rejected, createNode has been
\* called for no live record of any type.
C4_NoLiveNodeAfterRejection == SomeBrowseRejected => \A k \in LiveKeys : calls[k] = 0

\* C4 amended: once a browse request has rejected, no post node, page node or
\* file node is ever created, and tag, author and settings nodes exist only
\* for a browse request of their own that resolved.
C4_NoPostPageNodeAfterRejection ==
    SomeBrowseRejected =>
        /\ \A k \in PostPageKeys : calls[k] = 0
        /\ \A x \in Recs : ~images[x].exists /\ pc[x] = "none"
        /\ \A k \in LiveKeys \ PostPageKeys : calls[k] > 0 =>
               fetched[CASE k[1] = "GhostTag" -> "tags" [] k[1] = "GhostAuthor" -> "authors" [] OTHER -> "settings"] = "fulfilled"

C4_Witness ==
    /\ fetched["pages"] = "rejected"
    /\ ingest = "rejected"
    /\ Len(posts) > 0
    /\ calls[<<"GhostTag", 1>>] = 1
    /\ calls[<<"GhostSettings", SettingsId>>] = 1

\* C5: after an activation and one SET_SCHEMA delivery no placeholder is in
\* the store and no listener is registered; a further delivery with no
\* activation in between calls deleteNode zero times.
C5_RetractedAfterSignal ==
    called # {} =>
        /\ sinceActivate >= 1 => PlaceholdersInStore = {} /\ listeners = {}
        /\ sinceActivate >= 2 => sigDeletes = 0

C5_Witness ==
    /\ "onPreExtractQueries" \in called
    /\ sinceActivate = 2
    /\ sigDeletes = 0
    /\ PlaceholdersInStore = {}

\* C6: after any activation (first, second, or after a retraction) and until
\* the next SET_SCHEMA delivery, the store holds exactly one placeholder per
\* entry of fakeNodes.
C6_OnePlaceholderPerType ==
    (called # {} /\ sinceActivate = 0) =>
        \A t \in Types : Cardinality({n \in PlaceholdersInStore : n.type = t}) = 1

\* The second activation, after the first one's listener has retracted.
C6_Witness ==
    /\ listeners = {"onPreExtractQueries"}
    /\ sinceActivate = 0
    /\ fakeNodes \subseteq store

\* C7: no fake node is ever handed to createNode with internal.owner set.
C7_NoOwnershipError == ~ownerError

C7_Witness ==
    /\ called = {"sourceNodes", "onPreExtractQueries"}
    /\ listeners = {"sourceNodes", "onPreExtractQueries"}
    /\ \A t \in Types : owner[t]
    /\ ~ownerError

\* C8: when ContentAPI.configure throws, the ingestion promise is rejected,
\* no browse request is issued and no live node or file node is created.
C8_ConfigureFailsFast ==
    configured = "threw" =>
        /\ ingest = "rejected"
        /\ \A r \in Resources : fetched[r] = "none"
        /\ \A k \in LiveKeys : calls[k] = 0
        /\ store \subseteq fakeNodes
        /\ \A x \in Recs : ~images[x].exists /\ pc[x] = "none"

C8_Witness ==
    /\ configured = "threw"
    /\ ingest = "rejected"
    /\ "onPreExtractQueries" \in called

\* C9: a post or page with a feature_image whose side-load succeeded gets a
\* node whose localFile___NODE is the id of the returned file node, and that
\* file node has originalPath = feature_image and refId = the record's id.
C9_LinkAndAnnotations ==
    \A x \in Started : (pc[x] = "created" /\ HasImage(x) /\ x \notin warned) =>
        /\ fileNode[x] # {}
        /\ StoredFor(x) = {NodeOf(x, fileNode[x])}
        /\ images[x].exists
        /\ images[x].originalPath = Rec(x).feature_image
        /\ images[x].refId = {Rec(x).id}

C9_Witness ==
    /\ pc[<<"posts", 2>>] = "created" /\ HasImage(<<"posts", 2>>) /\ <<"posts", 2>> \notin warned
    /\ pc[<<"pages", 1>>] = "created" /\ HasImage(<<"pages", 1>>) /\ <<"pages", 1>> \notin warned

\* C10: a post or page without a feature_image is never side-loaded, gets no
\* file node, and its node has no localFile___NODE.
C10_NoImageNoLink ==
    \A x \in Started : ~HasImage(x) =>
        /\ pc[x] \in {"none", "created"}
        /\ fileNode[x] = {}
        /\ ~images[x].exists
        /\ x \notin warned
        /\ pc[x] = "created" => StoredFor(x) = {NodeOf(x, {})}

C10_Witness ==
    /\ pc[<<"posts", 1>>] = "created" /\ ~HasImage(<<"posts", 1>>)
    /\ pc[<<"pages", 1>>] = "created" /\ ~HasImage(<<"pages", 1>>)
    /\ pc[<<"posts", 2>>] = "created" /\ HasImage(<<"posts", 2>>)

\* The side-load of task x is in flight: started and not yet returned.
InFlight(x) == pc[x] \in {"download", "field1", "field2"}

\* The file node of task x carries both annotations.
Annotated(x) ==
    /\ images[x].exists
    /\ images[x].originalPath = Rec(x).feature_image
    /\ images[x].refId = {Rec(x).id}

\* C11: the side-loader returns an absent result whenever one of its three
\* steps failed, and a file node only when all three succeeded.
C11_AbsentOnAnyFailure ==
    \A x \in Started : Returned(x) =>
        /\ x \in warned => fileNode[x] = {}
        /\ fileNode[x] # {} => Annotated(x)

\* C12: a resolved ingestion has no post or page task that failed: a failed
\* node-creation task is reported as a rejected ingestion.
C12_NoFailedTaskWhenResolved ==
    ingest = "resolved" => \A x \in Started : pc[x] # "failed"

\* C13: no post or page is processed (no task started, no file node, no
\* post or page createNode) before all five browse calls have resolved.
C13_ProcessingAfterAllFive ==
    (\/ \E x \in Recs : pc[x] # "none" \/ images[x].exists \/ fileNode[x] # {}
     \/ \E k \in PostPageKeys : calls[k] > 0)
        => \A r \in Resources : fetched[r] = "fulfilled"

C13_Witness ==
    /\ pc[<<"posts", 1>>] = "download"
    /\ pc[<<"pages", 1>>] = "created"
    /\ tags # {}
    /\ \A r \in Resources : fetched[r] = "fulfilled"

\* C14: while the side-load of a post or page is in flight, and until the
\* task resumes with its result, createNode has not been called for it.
C14_NoNodeWhileSideLoading ==
    \A x \in Started : (InFlight(x) \/ pc[x] = "loaded") =>
        /\ calls[Key(NodeOf(x, {}))] = 0
        /\ StoredFor(x) = {}

C14_Witness ==
    /\ pc[<<"posts", 1>>] = "created"
    /\ pc[<<"posts", 2>>] = "field1"
    /\ pc[<<"pages", 1>>] = "created"
    /\ HasImage(<<"pages", 1>>)
    /\ calls[<<"GhostPost", 2>>] = 0

\* C15: once the tags (authors, settings) browse has resolved, createNode has
\* been called for each of its records, whatever the state of the other four
\* requests and of the ingestion promise.
C15_EagerTagAuthorSettingsNodes ==
    /\ fetched["tags"] = "fulfilled" => \A i \in tags : calls[<<"GhostTag", i>>] = 1 /\ TagNode(i) \in store
    /\ fetched["authors"] = "fulfilled" => \A i \in authors : calls[<<"GhostAuthor", i>>] = 1 /\ AuthorNode(i) \in store
    /\ fetched["settings"] = "fulfilled" => calls[<<"GhostSettings", SettingsId>>] = 1 /\ SettingsNode(SettingsId) \in store

\* Tags created with one request rejected, one pending, ingestion rejected.
C15_Witness ==
    /\ fetched["tags"] = "fulfilled"
    /\ tags # {}
    /\ fetched["posts"] = "rejected"
    /\ fetched["authors"] = "pending"
    /\ ingest = "rejected"
    /\ calls[<<"GhostTag", 1>>] = 1

C17_AtMostOneListener ==
    /\ Cardinality(listeners) <= 1
    /\ sigDeletes <= 1

\* C18: fake nodes are in the store exactly when a listener is registered.
C18_PlaceholdersIffListener == (PlaceholdersInStore # {}) <=> (listeners # {})

\* The second activation after the first one was retracted.
C18_Witness ==
    /\ listeners = {"onPreExtractQueries"}
    /\ PlaceholdersInStore = fakeNodes
    /\ sigDeletes = 1
    /\ ingest = "resolved"

\* C19: a SET_SCHEMA delivery removes no live node and no file node: every
\* live descriptor handed to createNode, and every file node made, stays in
\* the store as created.
C19_LiveNodesSurviveSignal ==
    /\ \A i \in tags : TagNode(i) \in store
    /\ \A i \in authors : AuthorNode(i) \in store
    /\ fetched["settings"] = "fulfilled" => SettingsNode(SettingsId) \in store
    /\ \A x \in Started : pc[x] = "created" => StoredFor(x) = {NodeOf(x, fileNode[x])}
    /\ \A x \in Recs : fileNode[x] # {} => images[x].exists

\* A delivery that ran a handler after the post, page and tag nodes were made.
C19_Witness ==
    /\ "onPreExtractQueries" \in called
    /\ sinceActivate = 1
    /\ sigDeletes >= 1
    /\ PlaceholdersInStore = {}
    /\ tags # {}
    /\ pc[<<"posts", 1>>] = "created" /\ HasImage(<<"posts", 1>>)
    /\ pc[<<"pages", 1>>] = "created"

\* A ready promise reaction runs: one of the two joins fires or the promise
\* of createLiveGhostNodes settles.
Reaction == joinRejects \/ joinFulfils \/ ingestResolves \/ ingestRejects

\* A download or annotation of some task settles, or the task resumes.
TaskStep ==
    \E x \in Recs :
        \/ createRecordNode(x)
        \/ sideLoadReturns(x)
        \/ downloadRejects(x)
        \/ \E fieldOk \in BOOLEAN : annotateRefId(x, fieldOk) \/ downloadResolves(x, fieldOk)

\* One of the five browse requests settles.
BrowseSettles ==
    \/ \E r \in Resources : browseRejects(r)
    \/ fetchSettings
    \/ \E n \in 0..MaxTags : fetchTags(n)
    \/ \E n \in 0..MaxAuthors : fetchAuthors(n)
    \/ \E ghostPosts \in Browsed(MaxPosts) : fetchPosts(ghostPosts)
    \/ \E ghostPages \in Browsed(MaxPages) : fetchPages(ghostPages)

\* A step of the ingestion.
IngestionStep == Reaction \/ TaskStep \/ BrowseSettles

\* Every browse request, download and annotation settles, and every ready
\* promise reaction runs.
TermSpec == Spec /\ WF_vars(IngestionStep)

\* C20: when every browse request, download and annotation settles, the
\* promise returned by sourceNodes settles.
C20_IngestionSettles == (ingest \in {"fetching", "processing"}) ~> (ingest \in {"resolved", "rejected"})

\* Settled as resolved with both posts created and the unawaited page failed.
C20_Witness ==
    /\ ingest = "resolved"
    /\ pc[<<"posts", 1>>] = "created"
    /\ pc[<<"posts", 2>>] = "created" /\ HasImage(<<"posts", 2>>)
    /\ pc[<<"pages", 1>>] = "failed"

====
